---- MODULE Spec2Model ----
(***************************************************************************)
(* Model of printf_df_codec.py: the one-shot decoder printf_decode and the *)
(* incremental decoder Printf_IncrementalDecoder.                          *)
(*                                                                         *)
(* Bytes are naturals 0..255, a str is a sequence of code points.  The     *)
(* text a decoder returns is a sequence of tokens: a literal character, or *)
(* the text Python's `print_fmt % val` produces, kept symbolic as the pair *)
(* (template, value).  Two rendered tokens are equal exactly when template *)
(* and value are equal.                                                    *)
(***************************************************************************)
EXTENDS Integers, Sequences, FiniteSets, TLC

VARIABLES
    errors,       \* self.errors: the error policy given to the constructor
    print_fmt,    \* self.print_fmt: the format template so far
    data_buffer,  \* self.data_buffer: the captured argument bytes
    val_len,      \* self.val_len: the resolved argument width
    val_fmt,      \* self.val_fmt: the struct unpack tag
    state,        \* self.state: the phase
    caller,       \* [bytes, limit]: the bytes the caller draws its input
                  \* from and how many of them it feeds at most
    used,         \* bytes fed so far
    fed,          \* bytes passed to decode since construction or reset()
    out,          \* concatenation of the texts decode returned since then
    failed,       \* some call since then raised
    trace,        \* shape of the call history, see the actions
    ret,          \* the last call and the exception it raised: [op, exc]
    once          \* outcome of printf_decode on fed: [done, text, exc]

vars == <<errors, print_fmt, data_buffer, val_len, val_fmt, state,
          caller, used, fed, out, failed, trace, ret, once>>

(***************************************************************************)
(* Bounds of the exploration.                                              *)
(***************************************************************************)
MaxLen == 4       \* bytes fed in one behaviour of Spec
MaxChunk == 2     \* longest chunk passed to one decode call
MaxStr == 5       \* bytes fed in one behaviour of SpecStr
MaxPrefix == 2    \* flag and digit characters before a length modifier
MaxWild == 5      \* bytes fed in one behaviour of SpecWild

(***************************************************************************)
(* Character codes used by the source.                                     *)
(***************************************************************************)
NUL == 0
ESC == 165
PCT == 37
STAR == 42
REPLACEMENT == 65533

Chr_c == 99
Chr_s == 115
Chr_h == 104
Chr_l == 108

FIND_FMT_START == 0
FIND_FMT_END == 1
CAP_VALUE == 2
CAP_TEXT == 3
CAP_WILD == 4

Policies == {"strict", "replace", "ignore"}

\* 'd', 'u', 'o', 'x', 'X': the one-character keys of VALUE_FORMAT
IntLetters == {100, 117, 111, 120, 88}

\* c in VALUE_FORMAT, for a one-character c
InValueFormat(c) == c \in IntLetters

\* VALUE_FORMAT[key] for key = len_chars + letter; "KeyError" when absent
VALUE_FORMAT(key) ==
    IF Len(key) = 1 /\ key[1] \in IntLetters
      THEN (IF key[1] = 100 THEN "<i" ELSE "<I")
    ELSE IF Len(key) = 2 /\ key[1] = Chr_h /\ key[2] \in IntLetters
      THEN (IF key[2] = 100 THEN "<h" ELSE "<H")
    ELSE IF Len(key) = 3 /\ key[1] = Chr_h /\ key[2] = Chr_h /\ key[3] \in IntLetters
      THEN (IF key[3] = 100 THEN "<b" ELSE "<B")
    ELSE "KeyError"

\* keys of SPECIAL_CHARS
SpecialKeys == {216, 228, 233, 239, 245, 248}

\* SPECIAL_CHARS[c]
SPECIAL_CHARS(c) ==
    CASE c = 216 -> 88
      [] c = 228 -> 100
      [] c = 233 -> 105
      [] c = 239 -> 111
      [] c = 245 -> 117
      [] c = 248 -> 120

NON_VALUE_CHARS == {Chr_c, Chr_s, PCT, NUL}
FLOAT_VAL_CHARS == {101, 69, 102, 70, 103, 71}

SPECIFIER_CHARS ==
    {SPECIAL_CHARS(k) : k \in SpecialKeys} \cup SpecialKeys
      \cup NON_VALUE_CHARS \cup FLOAT_VAL_CHARS

\* struct.calcsize(fmt)
calcsize(fmt) ==
    CASE fmt \in {"<i", "<I", "<f"} -> 4
      [] fmt \in {"<h", "<H"} -> 2
      [] fmt \in {"<b", "<B"} -> 1
      [] OTHER -> 0

(***************************************************************************)
(* Sequence helpers.                                                       *)
(***************************************************************************)
Last(s) == s[Len(s)]
Front(s) == SubSeq(s, 1, Len(s) - 1)
\* Python slice s[i:] with a 0-based i
From(s, i) == SubSeq(s, i + 1, Len(s))

\* str(n) for a byte n, as character codes
DecimalStr(n) ==
    IF n < 10 THEN <<48 + n>>
    ELSE IF n < 100 THEN <<48 + (n \div 10), 48 + (n % 10)>>
    ELSE <<48 + (n \div 100), 48 + ((n \div 10) % 10), 48 + (n % 10)>>

(***************************************************************************)
(* Values and text tokens.                                                 *)
(***************************************************************************)
\* an int: sign and little-endian base-256 magnitude without high zeros
RECURSIVE StripHigh(_)
StripHigh(s) ==
    IF s = <<>> THEN <<>>
    ELSE IF Last(s) = 0 THEN StripHigh(Front(s)) ELSE s

RECURSIVE AddOne(_)
AddOne(s) ==
    IF s = <<>> THEN <<>>
    ELSE IF s[1] = 255 THEN <<0>> \o AddOne(Tail(s))
    ELSE <<s[1] + 1>> \o Tail(s)

IntVal(neg, mag) == [vtype |-> "int", neg |-> neg, dat |-> StripHigh(mag)]
FloatVal(bits) == [vtype |-> "float", neg |-> FALSE, dat |-> bits]
StrVal(chars) == [vtype |-> "str", neg |-> FALSE, dat |-> chars]

\* struct.unpack(fmt, b)[0]; the caller checks the length
unpack(fmt, b) ==
    IF fmt = "<f" THEN FloatVal(b)
    ELSE IF fmt \in {"<I", "<H", "<B"} THEN IntVal(FALSE, b)
    ELSE IF Last(b) >= 128
           THEN IntVal(TRUE, AddOne([k \in 1..Len(b) |-> 255 - b[k]]))
           ELSE IntVal(FALSE, b)

\* a literal character of the returned text
Lit(c) == [kind |-> "chr", fmt |-> <<>>, vtype |-> "", neg |-> FALSE, dat |-> <<c>>]
\* the text of print_fmt % val
Rendered(f, v) == [kind |-> "fmt", fmt |-> f, vtype |-> v.vtype, neg |-> v.neg, dat |-> v.dat]
\* a str as literal text
Lits(s) == [k \in 1..Len(s) |-> Lit(s[k])]

(***************************************************************************)
(* bytes.decode('ascii', errors)                                           *)
(***************************************************************************)
RECURSIVE AsciiChars(_, _)
AsciiChars(b, policy) ==
    IF b = <<>> THEN <<>>
    ELSE IF b[1] < 128 THEN <<b[1]>> \o AsciiChars(Tail(b), policy)
    ELSE IF policy = "replace" THEN <<REPLACEMENT>> \o AsciiChars(Tail(b), policy)
    ELSE AsciiChars(Tail(b), policy)

decode_ascii(b, policy) ==
    IF policy = "strict" /\ \E k \in 1..Len(b) : b[k] >= 128
      THEN [exc |-> "UnicodeDecodeError", chars |-> <<>>]
      ELSE [exc |-> "none", chars |-> AsciiChars(b, policy)]

(***************************************************************************)
(* The formatter: Python's print_fmt % val for a single non-tuple val.     *)
(* FormatScan walks the template as the interpreter does and returns the   *)
(* first error it meets, or "ok": "%%" is a literal percent; "%(" wants a  *)
(* mapping; a specifier is flags, width, precision, one of h l L, and a    *)
(* conversion character; the single value serves one specifier.  (Widths   *)
(* of 19 digits and more, which the interpreter rejects, are outside the   *)
(* bounds explored.)                                                       *)
(***************************************************************************)
FlagChars == {45, 43, 32, 35, 48}
DigitChars == 48..57
PyLengthChars == {104, 108, 76}

RECURSIVE SkipWhile(_, _, _)
SkipWhile(f, j, set) ==
    IF j <= Len(f) /\ f[j] \in set THEN SkipWhile(f, j + 1, set) ELSE j

\* past a '.' and the digits of a precision, if one starts at j
AfterPrecision(f, j) ==
    IF j <= Len(f) /\ f[j] = 46 THEN SkipWhile(f, j + 1, DigitChars) ELSE j

\* past one of h, l, L, if one is at j
AfterLength(f, j) ==
    IF j <= Len(f) /\ f[j] \in PyLengthChars THEN j + 1 ELSE j

\* position of the conversion character of the specifier whose '%' is at i
ConvPos(f, i) ==
    AfterLength(f, AfterPrecision(f,
        SkipWhile(f, SkipWhile(f, i + 1, FlagChars), DigitChars)))

\* exponent bits all ones: infinity (zero mantissa) or NaN
FloatIsInf(b) == /\ b[4] % 128 = 127 /\ b[3] = 128 /\ b[2] = 0 /\ b[1] = 0
FloatIsNan(b) == /\ b[4] % 128 = 127 /\ b[3] >= 128 /\ ~FloatIsInf(b)

\* converting v with conversion character ch
Convert(ch, v) ==
    IF ch \in {115, 114, 97} THEN "ok"
    ELSE IF ch \in {100, 105, 117} THEN
        (IF v.vtype = "int" THEN "ok"
         ELSE IF v.vtype = "str" THEN "TypeError"
         ELSE IF FloatIsNan(v.dat) THEN "ValueError"
         ELSE IF FloatIsInf(v.dat) THEN "OverflowError"
         ELSE "ok")
    ELSE IF ch \in {111, 120, 88} THEN
        (IF v.vtype = "int" THEN "ok" ELSE "TypeError")
    ELSE IF ch \in FLOAT_VAL_CHARS THEN
        (IF v.vtype = "str" THEN "TypeError" ELSE "ok")
    ELSE IF ch = Chr_c THEN
        (IF v.vtype = "int"
           THEN (IF v.neg \/ Len(v.dat) > 3 \/ (Len(v.dat) = 3 /\ v.dat[3] > 16)
                   THEN "OverflowError" ELSE "ok")
         ELSE IF v.vtype = "str" /\ Len(v.dat) = 1 THEN "ok"
         ELSE "TypeError")
    ELSE "ValueError"

RECURSIVE FormatScan(_, _, _, _)

\* the conversion at j gave res
ConvertAt(f, j, v, res) ==
    IF res # "ok" THEN res ELSE FormatScan(f, j + 1, TRUE, v)

\* the specifier whose conversion character is at j
SpecAt(f, j, taken, v) ==
    IF j > Len(f) THEN "ValueError"
    ELSE IF taken THEN "TypeError"
    ELSE ConvertAt(f, j, v, Convert(f[j], v))

FormatScan(f, i, taken, v) ==
    IF i > Len(f) THEN (IF taken THEN "ok" ELSE "TypeError")
    ELSE IF f[i] # PCT THEN FormatScan(f, i + 1, taken, v)
    ELSE IF i + 1 <= Len(f) /\ f[i + 1] = PCT THEN FormatScan(f, i + 2, taken, v)
    ELSE IF i + 1 <= Len(f) /\ f[i + 1] = 40 THEN "TypeError"
    ELSE SpecAt(f, ConvPos(f, i), taken, v)

\* the try/except of sprintf around a formatter outcome res
Formatted(f, v, res) ==
    IF res = "ok" THEN [exc |-> "none", text |-> <<Rendered(f, v)>>]
    ELSE IF res = "TypeError" THEN [exc |-> "none", text |-> Lits(f)]
    ELSE [exc |-> res, text |-> <<>>]

\* sprintf(print_fmt, val): formats, returns the template on a TypeError,
\* and lets every other error out
sprintf(f, v) == Formatted(f, v, FormatScan(f, 1, FALSE, v))

(***************************************************************************)
(* parse_length_chars(print_fmt, val_char), called with a val_char by both *)
(* decoders.  print_fmt[-1] of an empty str is an IndexError.              *)
(***************************************************************************)
len_char_set == {104, 108, 76, 106, 122, 116}

Parsed(exc, f, tag) == [exc |-> exc, fmt |-> f, tag |-> tag]

\* as parse_length_chars, but of "ll" only the last 'l' is removed
parse_length_chars_one_l(f, val_char) ==
    IF f = <<>> THEN Parsed("IndexError", <<>>, <<>>)
    ELSE IF Last(f) \notin len_char_set
      THEN Parsed("none", f \o <<val_char>>, <<val_char>>)
    ELSE IF Front(f) = <<>> /\ Last(f) \in {Chr_h, Chr_l}
      THEN Parsed("IndexError", <<>>, <<>>)
    ELSE IF Last(f) = Chr_h THEN
        (IF Last(Front(f)) = Chr_h
           THEN Parsed("none", Front(Front(f)) \o <<val_char>>, <<Chr_h, Chr_h, val_char>>)
           ELSE Parsed("none", Front(f) \o <<val_char>>, <<Chr_h, val_char>>))
    ELSE Parsed("none", Front(f) \o <<val_char>>, <<val_char>>)

parse_length_chars(f, val_char) ==
    IF f = <<>> THEN Parsed("IndexError", <<>>, <<>>)
    ELSE IF Last(f) \notin len_char_set
      THEN Parsed("none", f \o <<val_char>>, <<val_char>>)
    ELSE IF Front(f) = <<>> /\ Last(f) \in {Chr_h, Chr_l}
      THEN Parsed("IndexError", <<>>, <<>>)
    ELSE IF Last(f) = Chr_h THEN
        (IF Last(Front(f)) = Chr_h
           THEN Parsed("none", Front(Front(f)) \o <<val_char>>, <<Chr_h, Chr_h, val_char>>)
           ELSE Parsed("none", Front(f) \o <<val_char>>, <<Chr_h, val_char>>))
    ELSE IF Last(f) = Chr_l /\ Last(Front(f)) = Chr_l
      THEN Parsed("none", Front(Front(f)) \o <<val_char>>, <<val_char>>)
    ELSE Parsed("none", Front(f) \o <<val_char>>, <<val_char>>)

(***************************************************************************)
(* Printf_IncrementalDecoder.  A decoder is the record of its fields.      *)
(***************************************************************************)
\* the fields __init__ sets, besides errors
InitFields ==
    [print_fmt |-> <<>>, data_buffer |-> <<>>, val_len |-> 0, val_fmt |-> "",
     state |-> FIND_FMT_START]

\* a reset that leaves the argument buffer alone
reset_keeps_buffer(d) ==
    [print_fmt |-> <<>>, data_buffer |-> d.data_buffer, val_len |-> 0,
     val_fmt |-> "", state |-> FIND_FMT_START]

\* reset(): the decoder d after the call
reset(d) ==
    [print_fmt |-> <<>>, data_buffer |-> <<>>, val_len |-> 0, val_fmt |-> "",
     state |-> FIND_FMT_START]

Self ==
    [print_fmt |-> print_fmt, data_buffer |-> data_buffer, val_len |-> val_len,
     val_fmt |-> val_fmt, state |-> state]

\* one loop iteration: the decoder after it, the text added to r, the
\* exception raised
Step(d, r, exc) == [d |-> d, r |-> r, exc |-> exc]

\* an iteration that ends with r = r + sprintf(...)
StepOf(d, sp) == Step(d, sp.text, sp.exc)

\* a FIND_FMT_START branch that starts a record with an empty template
StepFindStart_no_percent(d, val) ==
    IF val = ESC
      THEN Step([reset(d) EXCEPT !.state = FIND_FMT_END], <<>>, "none")
    ELSE IF val # NUL THEN Step(d, <<Lit(val)>>, "none")
    ELSE Step(d, <<>>, "none")

\* FIND_FMT_START branch of the loop body
StepFindStart(d, val) ==
    IF val = ESC
      THEN Step([reset(d) EXCEPT !.print_fmt = <<PCT>>, !.state = FIND_FMT_END],
                <<>>, "none")
    ELSE IF val # NUL THEN Step(d, <<Lit(val)>>, "none")
    ELSE Step(d, <<>>, "none")

\* c in VALUE_FORMAT: p is what parse_length_chars returned
IntCapture(d, p) ==
    IF p.exc # "none" THEN Step(d, <<>>, p.exc)
    ELSE Step([d EXCEPT !.print_fmt = p.fmt,
                        !.val_fmt = VALUE_FORMAT(p.tag),
                        !.val_len = calcsize(VALUE_FORMAT(p.tag)),
                        !.state = CAP_VALUE], <<>>, "none")

\* c in SPECIAL_CHARS: p is what parse_length_chars returned
SpecialCapture(d, p) ==
    IF p.exc # "none" THEN Step(d, <<>>, p.exc)
    ELSE Step([d EXCEPT !.print_fmt = p.fmt, !.val_fmt = "<B",
                        !.val_len = 1, !.state = CAP_VALUE], <<>>, "none")

\* the classification of c = chr(val), once it is appended to the template
\* of d.  The 'c' branch stores 1 in self.len, a field nothing reads, and
\* leaves val_len alone; the '%' and NUL branches evaluate
\* self.FIND_FMT_START and store nothing.
Classify(d, val) ==
    IF InValueFormat(val)
      THEN IntCapture(d, parse_length_chars(Front(d.print_fmt), val))
    ELSE IF val \in SpecialKeys
      THEN SpecialCapture(d, parse_length_chars(Front(d.print_fmt), SPECIAL_CHARS(val)))
    ELSE IF val \in FLOAT_VAL_CHARS
      THEN Step([d EXCEPT !.val_fmt = "<f", !.val_len = 4, !.state = CAP_VALUE],
                <<>>, "none")
    ELSE IF val \in NON_VALUE_CHARS THEN
        (IF val = Chr_c
           THEN Step([d EXCEPT !.val_fmt = "<B", !.state = CAP_VALUE], <<>>, "none")
         ELSE IF val = Chr_s
           THEN Step([d EXCEPT !.state = CAP_TEXT], <<>>, "none")
         ELSE IF val = PCT
           THEN Step(d, <<Lit(PCT)>>, "none")
         ELSE Step(d, Lits(d.print_fmt), "none"))
    ELSE IF val = STAR
      THEN Step([d EXCEPT !.print_fmt = Front(d.print_fmt), !.state = CAP_WILD],
                <<>>, "none")
    ELSE Step(d, <<>>, "none")

\* FIND_FMT_END branch: the template is extended, then c is classified
StepFindEnd(d, val) ==
    Classify([d EXCEPT !.print_fmt = d.print_fmt \o <<val>>], val)

\* the test of CAP_VALUE once the byte is in the buffer of d: the phase is
\* stored before the value is unpacked and rendered
Captured(d) ==
    IF Len(d.data_buffer) # d.val_len THEN Step(d, <<>>, "none")
    ELSE IF calcsize(d.val_fmt) # Len(d.data_buffer)
      THEN Step([d EXCEPT !.state = FIND_FMT_START], <<>>, "struct.error")
    ELSE StepOf([d EXCEPT !.state = FIND_FMT_START],
                sprintf(d.print_fmt, unpack(d.val_fmt, d.data_buffer)))

\* CAP_VALUE branch
StepCapValue(d, val) ==
    Captured([d EXCEPT !.data_buffer = d.data_buffer \o <<val>>])

\* a CAP_TEXT branch that renders the string and stays in CAP_TEXT
TextRendered_stays(d, sp) ==
    IF sp.exc # "none" THEN Step(d, <<>>, sp.exc)
    ELSE Step(d, sp.text, "none")

\* CAP_TEXT at a NUL, the string rendered: the phase is stored after that
TextRendered(d, sp) ==
    IF sp.exc # "none" THEN Step(d, <<>>, sp.exc)
    ELSE Step([d EXCEPT !.state = FIND_FMT_START], sp.text, "none")

\* CAP_TEXT at a NUL, the buffer decoded into a
TextDecoded(d, a) ==
    IF a.exc # "none" THEN Step(d, <<>>, a.exc)
    ELSE TextRendered(d, sprintf(d.print_fmt, StrVal(a.chars)))

\* CAP_TEXT branch
StepCapText(d, val, policy) ==
    IF val = 0 THEN TextDecoded(d, decode_ascii(d.data_buffer, policy))
    ELSE Step([d EXCEPT !.data_buffer = d.data_buffer \o <<val>>], <<>>, "none")

\* a CAP_WILD branch that splices the data byte itself into the template
StepCapWild_raw(d, val) ==
    Step([d EXCEPT !.print_fmt = d.print_fmt \o <<val>>,
                   !.state = FIND_FMT_END], <<>>, "none")

\* CAP_WILD branch
StepCapWild(d, val) ==
    Step([d EXCEPT !.print_fmt = d.print_fmt \o DecimalStr(val),
                   !.state = FIND_FMT_END], <<>>, "none")

\* one iteration of `for val in input`
ByteStep(d, val, policy) ==
    CASE d.state = FIND_FMT_START -> StepFindStart(d, val)
      [] d.state = FIND_FMT_END -> StepFindEnd(d, val)
      [] d.state = CAP_VALUE -> StepCapValue(d, val)
      [] d.state = CAP_TEXT -> StepCapText(d, val, policy)
      [] d.state = CAP_WILD -> StepCapWild(d, val)

\* the loop of decode: stops at the first byte that raises
RECURSIVE DecodeLoop(_, _, _, _)

\* the loop after an iteration s, with rest still to read
LoopOn(s, rest, r, policy) ==
    IF s.exc # "none" THEN Step(s.d, r, s.exc)
    ELSE DecodeLoop(s.d, rest, r \o s.r, policy)

DecodeLoop(d, input, r, policy) ==
    IF input = <<>> THEN Step(d, r, "none")
    ELSE LoopOn(ByteStep(d, input[1], policy), Tail(input), r, policy)

\* a call: the decoder after it, the text returned, the exception raised
Result(d, text, exc) == [d |-> d, text |-> text, exc |-> exc]

\* the flush of final=True after the loop l, the buffer decoded into a
Flushed(l, a) ==
    IF a.exc # "none" THEN Result(l.d, <<>>, a.exc)
    ELSE Result(reset(l.d), l.r \o Lits(l.d.print_fmt) \o Lits(a.chars), "none")

\* decode after its loop l
AfterLoop(l, final, policy) ==
    IF l.exc # "none" THEN Result(l.d, <<>>, l.exc)
    ELSE IF final /\ l.d.state # FIND_FMT_START
      THEN Flushed(l, decode_ascii(l.d.data_buffer, policy))
    ELSE Result(l.d, l.r, "none")

\* decode with the argument buffer emptied at the start of every call
decode_fresh_buffer(d, input, final, policy) ==
    AfterLoop(DecodeLoop([d EXCEPT !.data_buffer = <<>>], input, <<>>, policy),
              final, policy)

\* Printf_IncrementalDecoder.decode(input, final)
decode(d, input, final, policy) ==
    AfterLoop(DecodeLoop(d, input, <<>>, policy), final, policy)

\* getstate(): print_fmt.encode('ascii') + data_buffer, and the phase
getstate(d) ==
    IF \E k \in 1..Len(d.print_fmt) : d.print_fmt[k] >= 128
      THEN [exc |-> "UnicodeEncodeError", bytes |-> <<>>, phase |-> d.state]
      ELSE [exc |-> "none", bytes |-> d.print_fmt \o d.data_buffer, phase |-> d.state]

\* setstate drops the text of its decode call
Restored(res) == [d |-> res.d, exc |-> res.exc]

\* setstate(st): reset(), then decode(st[0])
setstate(d, st, policy) == Restored(decode(reset(d), st.bytes, FALSE, policy))

(***************************************************************************)
(* printf_decode(data, errors), the one-shot decoder.                      *)
(***************************************************************************)
\* b.find(x): 0-based index of the first x, -1 when absent
RECURSIVE Find(_, _, _)
Find(b, x, k) ==
    IF k > Len(b) THEN -1
    ELSE IF b[k] = x THEN k - 1 ELSE Find(b, x, k + 1)

\* b split at the 0-based index k of its first marker
SplitAt(b, k) ==
    IF k = -1 THEN [head |-> b, more |-> FALSE, rest |-> <<>>]
    ELSE [head |-> SubSeq(b, 1, k), more |-> TRUE, rest |-> From(b, k + 1)]

\* b.split(b'\xA5', 1)
Split1(b) == SplitAt(b, Find(b, ESC, 1))

\* c before its first assignment
Unbound == -1

Scanned(i, f, c, exc) == [i |-> i, fmt |-> f, c |-> c, exc |-> exc]

\* the inner while loop: i is 0-based, c is the last character looked at
RECURSIVE ScanSpec(_, _, _, _)
ScanSpec(pd, i, f, c) ==
    IF i >= Len(pd) THEN Scanned(i, f, c, "none")
    ELSE IF pd[i + 1] = STAR THEN
        (IF i + 1 >= Len(pd)
           THEN Scanned(i + 1, f, STAR, "IndexError")
           ELSE ScanSpec(pd, i + 2, f \o DecimalStr(pd[i + 2]), STAR))
    ELSE IF pd[i + 1] \in SPECIFIER_CHARS
      THEN Scanned(i + 1, IF pd[i + 1] # NUL THEN f \o <<pd[i + 1]>> ELSE f,
                   pd[i + 1], "none")
    ELSE ScanSpec(pd, i + 1, IF pd[i + 1] # NUL THEN f \o <<pd[i + 1]>> ELSE f,
                  pd[i + 1])

\* a record: the index after it, its text, the exception raised
Rec(i, text, exc) == [i |-> i, text |-> text, exc |-> exc]

\* a record that ends with r = r + sprintf(...)
RecOf(i, sp) == Rec(i, sp.text, sp.exc)

\* print_data[i:i+n]
Slice(pd, i, n) == SubSeq(pd, i + 1, IF i + n <= Len(pd) THEN i + n ELSE Len(pd))

\* a value of layout vf unpacked from print_data[i:i+calcsize(vf)]
UnpackRecord(pd, i, f, vf) ==
    IF Len(Slice(pd, i, calcsize(vf))) # calcsize(vf) THEN Rec(i, <<>>, "struct.error")
    ELSE RecOf(i + calcsize(vf), sprintf(f, unpack(vf, Slice(pd, i, calcsize(vf)))))

\* c in VALUE_FORMAT: p is what parse_length_chars returned
IntRecord(pd, i, p) ==
    IF p.exc # "none" THEN Rec(i, <<>>, p.exc)
    ELSE UnpackRecord(pd, i, p.fmt, VALUE_FORMAT(p.tag))

\* sprintf(print_fmt, print_data[i])
ByteRecord(pd, i, f) ==
    IF i >= Len(pd) THEN Rec(i, <<>>, "IndexError")
    ELSE RecOf(i + 1, sprintf(f, IntVal(FALSE, <<pd[i + 1]>>)))

\* c in SPECIAL_CHARS: p is what parse_length_chars returned
SpecialRecord(pd, i, p) ==
    IF p.exc # "none" THEN Rec(i, <<>>, p.exc) ELSE ByteRecord(pd, i, p.fmt)

\* c == 's', the payload decoded into a
StrDecoded(i, f, end, a) ==
    IF a.exc # "none" THEN Rec(i, <<>>, a.exc)
    ELSE RecOf(i + end + 1, sprintf(f, StrVal(a.chars)))

\* c == 's': end is what find returned; print_data[i:i+end] is empty when
\* end is -1
StrRecord(pd, i, f, end, policy) ==
    StrDecoded(i, f, end,
               decode_ascii(IF end = -1 THEN <<>> ELSE SubSeq(pd, i + 1, i + end),
                            policy))

\* the if/elif chain after the scan
RenderRecord(pd, i, f, c, policy) ==
    IF c = Unbound THEN Rec(i, <<>>, "UnboundLocalError")
    ELSE IF InValueFormat(c) THEN IntRecord(pd, i, parse_length_chars(Front(f), c))
    ELSE IF c \in SpecialKeys
      THEN SpecialRecord(pd, i, parse_length_chars(Front(f), SPECIAL_CHARS(c)))
    ELSE IF c \in FLOAT_VAL_CHARS THEN UnpackRecord(pd, i, f, "<f")
    ELSE IF c = PCT THEN Rec(i, <<Lit(PCT)>>, "none")
    ELSE IF c = Chr_c THEN ByteRecord(pd, i, f)
    ELSE IF c = Chr_s THEN StrRecord(pd, i, f, Find(From(pd, i), NUL, 1), policy)
    ELSE Rec(i, Lits(IF Last(f) = NUL THEN Front(f) ELSE f), "none")

\* what printf_decode returns or raises
Decoded(text, exc) == [text |-> text, exc |-> exc]

\* the outer while loop: print_data is what follows an escape marker, r the
\* text so far, c the character the previous scan left
RECURSIVE RecordLoop(_, _, _, _)

\* the literal run sp.head decoded into a
LiteralDecoded(r, c, sp, a, policy) ==
    IF a.exc # "none" THEN Decoded(<<>>, a.exc)
    ELSE IF sp.more THEN RecordLoop(sp.rest, r \o Lits(a.chars), c, policy)
    ELSE Decoded(r \o Lits(a.chars), "none")

\* r = r + data_split[0].decode('ascii', errors), and the loop test
Literal(r, c, sp, policy) ==
    LiteralDecoded(r, c, sp, decode_ascii(sp.head, policy), policy)

\* the record rendered into rr
RecordDone(pd, r, c, rr, policy) ==
    IF rr.exc # "none" THEN Decoded(<<>>, rr.exc)
    ELSE Literal(r \o rr.text, c, Split1(From(pd, rr.i)), policy)

\* the specifier scanned into sc
RecordScanned(pd, r, sc, policy) ==
    IF sc.exc # "none" THEN Decoded(<<>>, sc.exc)
    ELSE RecordDone(pd, r, sc.c, RenderRecord(pd, sc.i, sc.fmt, sc.c, policy), policy)

RecordLoop(pd, r, c, policy) ==
    RecordScanned(pd, r, ScanSpec(pd, 0, <<PCT>>, c), policy)

printf_decode(data, policy) == Literal(<<>>, Unbound, Split1(data), policy)

(***************************************************************************)
(* The caller.  A behaviour constructs one decoder with some error policy  *)
(* and then calls its methods in any order, feeding chunks of bytes drawn  *)
(* from caller.bytes, caller.limit bytes in all.  While every call since   *)
(* construction or since the last reset() has been a decode call, fed is   *)
(* the input of those calls and out their text (failed: one of them        *)
(* raised), and after a final call printf_decode is run once on fed.       *)
(***************************************************************************)
MainAlphabet == {0, 37, 99, 115, 128, 165, 228}
StrAlphabet == {0, 115, 128, 165}

NotRun == [done |-> FALSE, text |-> <<>>, exc |-> "none"]

Chunks(n) == [1..n -> caller.bytes]

SetFields(d) ==
    /\ print_fmt' = d.print_fmt
    /\ data_buffer' = d.data_buffer
    /\ val_len' = d.val_len
    /\ val_fmt' = d.val_fmt
    /\ state' = d.state

\* Printf_IncrementalDecoder(errors) for a caller with the given input
InitWith(policies, bytes, limit) ==
    /\ errors \in policies
    /\ print_fmt = InitFields.print_fmt
    /\ data_buffer = InitFields.data_buffer
    /\ val_len = InitFields.val_len
    /\ val_fmt = InitFields.val_fmt
    /\ state = InitFields.state
    /\ caller = [bytes |-> bytes, limit |-> limit]
    /\ used = 0
    /\ fed = <<>>
    /\ out = <<>>
    /\ failed = FALSE
    /\ trace = "new"
    /\ ret = [op |-> "init", exc |-> "none"]
    /\ once = NotRun

Init == InitWith(Policies, MainAlphabet, MaxLen)

\* the history after one more decode call
NextTrace(final) ==
    IF trace = "new" THEN (IF final THEN "new-final" ELSE "new")
    ELSE IF trace = "reset" THEN (IF final THEN "reset-final" ELSE "reset")
    ELSE "mixed"

\* a decode call that returned or raised res
DecodeCall(chunk, final, res, tr) ==
    /\ SetFields(res.d)
    /\ ret' = [op |-> IF final THEN "final" ELSE "decode", exc |-> res.exc]
    /\ trace' = tr
    /\ fed' = IF tr = "mixed" THEN <<>> ELSE fed \o chunk
    /\ out' = IF tr = "mixed" THEN res.text ELSE out \o res.text
    /\ failed' = IF tr = "mixed" THEN res.exc # "none"
                                 ELSE (failed \/ res.exc # "none")
    /\ once' = NotRun
    /\ used' = used + Len(chunk)
    /\ UNCHANGED <<errors, caller>>

\* decode(chunk, final); a final call may carry no bytes
Decode ==
    \E final \in BOOLEAN :
      \E n \in (IF final THEN 0 ELSE 1)..MaxChunk :
        \E chunk \in Chunks(n) :
          /\ used + n <= caller.limit
          /\ DecodeCall(chunk, final, decode(Self, chunk, final, errors),
                        NextTrace(final))

\* reset()
Reset ==
    /\ used > 0
    /\ SetFields(reset(Self))
    /\ ret' = [op |-> "reset", exc |-> "none"]
    /\ trace' = "reset"
    /\ fed' = <<>>
    /\ out' = <<>>
    /\ failed' = FALSE
    /\ once' = NotRun
    /\ UNCHANGED <<errors, caller, used>>

\* a setstate call that came to s
Restoring(s) ==
    /\ ret' = [op |-> "setstate", exc |-> s.exc]
    /\ SetFields(s.d)

\* setstate(g) for the g that getstate() returned
Restore(g) ==
    IF g.exc # "none"
      THEN /\ ret' = [op |-> "getstate", exc |-> g.exc]
           /\ UNCHANGED <<print_fmt, data_buffer, val_len, val_fmt, state>>
      ELSE Restoring(setstate(Self, g, errors))

\* setstate(getstate())
SaveRestore ==
    /\ used > 0
    /\ Restore(getstate(Self))
    /\ trace' = "mixed"
    /\ fed' = <<>>
    /\ out' = <<>>
    /\ failed' = FALSE
    /\ once' = NotRun
    /\ UNCHANGED <<errors, caller, used>>

\* printf_decode returned or raised res
Ran(res) == [done |-> TRUE, text |-> res.text, exc |-> res.exc]

\* printf_decode(fed, errors), once the stream is closed
PrintfDecode ==
    /\ trace \in {"new-final", "reset-final"}
    /\ ~once.done
    /\ once' = Ran(printf_decode(fed, errors))
    /\ UNCHANGED <<errors, print_fmt, data_buffer, val_len, val_fmt, state,
                   caller, used, fed, out, failed, trace, ret>>

Next == Decode \/ Reset \/ SaveRestore \/ PrintfDecode

Spec == Init /\ [][Next]_vars

\* string-argument records only, a longer stream
InitStr == InitWith(Policies, StrAlphabet, MaxStr)

SpecStr == InitStr /\ [][Next]_vars

(***************************************************************************)
(* Properties.                                                             *)
(***************************************************************************)
\* the five fields, as one value
Fields == <<print_fmt, data_buffer, val_len, val_fmt, state>>

\* what feeding so far came to: the decoder, the text, whether a call raised
Fed(d, text, fail) == [d |-> d, out |-> text, failed |-> fail]

RECURSIVE FeedEach(_, _, _, _, _)

\* one single-byte call returned or raised res
FedOne(res, rest, text, fail, policy) ==
    FeedEach(res.d, rest, text \o res.text, fail \/ res.exc # "none", policy)

\* bytes fed one at a time, each in a decode call of its own
FeedEach(d, bytes, text, fail, policy) ==
    IF bytes = <<>> THEN Fed(d, text, fail)
    ELSE FedOne(decode(d, <<bytes[1]>>, FALSE, policy), Tail(bytes), text, fail, policy)

PerByte == FeedEach(InitFields, fed, <<>>, FALSE, errors)

\* the decoder and its output are those of p
SameAs(p) == out = p.out /\ Self = p.d

\* as SameAs, unless a call of p raised
SameUnlessRaised(p) == p.failed \/ (out = p.out /\ Self = p.d)

\* C1: the text of a stream fed in chunks to a new decoder and closed with
\* final=True is the text the one-shot decoder gives for the concatenation
\* of the chunks, and either both raise or neither does.
ChunkInvarianceOneShot ==
    (trace = "new-final" /\ once.done) =>
        /\ failed <=> (once.exc # "none")
        /\ ~failed => out = once.text

IsSaveRestore == ret'.op \in {"getstate", "setstate"} /\ vars' # vars

\* the step is a decode call
IsDecode == ret'.op \in {"decode", "final"} /\ once' = NotRun /\ vars' # vars

\* the step is a non-final decode call of one byte, the last of fed'
IsByte ==
    IsDecode /\ ret'.op = "decode" /\ trace' # "mixed" /\ used' = used + 1

\* the step is decode(b'', final=True)
IsFinalize == IsDecode /\ ret'.op = "final" /\ used' = used

\* the text the decode call of the step returned
CallText ==
    IF trace' = "mixed" THEN out' ELSE SubSeq(out', Len(out) + 1, Len(out'))

\* C3: setstate(getstate()) in a phase other than FIND_FMT_START does not
\* fail and leaves phase, template, argument buffer, resolved width and
\* unpack tag as they were.
StateRoundTrip ==
    [][(IsSaveRestore /\ state # FIND_FMT_START) =>
          (ret'.exc = "none" /\ Fields' = Fields)]_vars

\* the decode call of the step did what a new decoder does
AsNew(res) ==
    /\ ret'.exc = res.exc
    /\ out' = res.text
    /\ Fields' = <<res.d.print_fmt, res.d.data_buffer, res.d.val_len,
                   res.d.val_fmt, res.d.state>>

\* C4: reset() leaves phase FIND_FMT_START, empty template and argument
\* buffer, width 0 and an empty unpack tag, whatever the calls before it,
\* and the decode call that follows returns, raises and leaves behind what
\* the same call does on a newly constructed decoder.
ResetErasesHistory ==
    [][/\ ret'.op = "reset" =>
            Fields' = <<<<>>, <<>>, 0, "", FIND_FMT_START>>
       /\ (ret.op = "reset" /\ IsDecode) =>
            AsNew(decode(InitFields, fed', ret'.op = "final", errors))]_vars

WitnessResetErasesHistory ==
    /\ trace = "reset" /\ ret.op = "decode" /\ used > Len(fed)
    /\ state = FIND_FMT_END /\ out # <<>>

\* C5: decode(b'', final=True) never raises and leaves the phase
\* FIND_FMT_START; from another phase it returns the template followed by
\* the buffered argument bytes and empties both, and in FIND_FMT_START it
\* returns the empty text.
FinalizeFlushesAndResets ==
    [][IsFinalize =>
          /\ ret'.exc = "none"
          /\ state' = FIND_FMT_START
          /\ state = FIND_FMT_START => CallText = <<>>
          /\ state # FIND_FMT_START =>
                /\ print_fmt' = <<>> /\ data_buffer' = <<>>
                /\ CallText = Lits(print_fmt) \o Lits(AsciiChars(data_buffer, errors))]_vars

\* C6: a '%' or a NUL received in FIND_FMT_END ends the record: the phase
\* after that byte is FIND_FMT_START, and for '%' the text is a single '%'.
NoArgumentRecordsEnd ==
    [][(IsByte /\ state = FIND_FMT_END /\ Last(fed') \in {PCT, NUL}) =>
          /\ state' = FIND_FMT_START
          /\ Last(fed') = PCT => CallText = <<Lit(PCT)>>]_vars

\* the bytes of b are all below 0x80
IsAscii(b) == \A k \in 1..Len(b) : b[k] < 128

\* the tokens of text are all literal characters
IsLiteral(text) == \A k \in 1..Len(text) : text[k].kind = "chr"

\* the record pd, scanned into sc, lacks its conversion or argument bytes
Truncated(pd, sc) ==
    \/ sc.exc = "IndexError"
    \/ sc.c = Unbound
    \/ sc.c \notin SPECIFIER_CHARS
    \/ InValueFormat(sc.c) \/ sc.c \in FLOAT_VAL_CHARS
    \/ sc.c \in SpecialKeys \cup {Chr_c} /\ sc.i >= Len(pd)
    \/ sc.c = Chr_s /\ Find(From(pd, sc.i), NUL, 1) = -1

\* b is ASCII literal text followed by one record, which is incomplete
EndsTruncated(b, sp) ==
    /\ sp.more /\ IsAscii(sp.head) /\ Find(sp.rest, ESC, 1) = -1
    /\ Truncated(sp.rest, ScanSpec(sp.rest, 0, <<PCT>>, Unbound))

\* C7: for a buffer that ends in an incomplete record, printf_decode does
\* not fail and returns literal text only.
OneShotToleratesTruncation ==
    (once.done /\ EndsTruncated(fed, Split1(fed))) =>
        (once.exc = "none" /\ IsLiteral(once.text))

\* no token of text is a literal character in 0x80..0xFF
NoRawHighByte(text) ==
    \A k \in 1..Len(text) : text[k].kind = "chr" => text[k].dat[1] \notin 128..255

\* C8: for input that is one literal run, in both decoders a byte >= 0x80
\* makes the call fail under 'strict' and never reaches the text unchanged.
ErrorPolicyGoverns ==
    (trace \in {"new", "new-final"} /\ Find(fed, ESC, 1) = -1) =>
        /\ NoRawHighByte(out)
        /\ (errors = "strict" /\ ~IsAscii(fed)) => failed
        /\ once.done =>
              /\ NoRawHighByte(once.text)
              /\ (errors = "strict" /\ ~IsAscii(fed)) => once.exc # "none"

\* C9: no call of either decoder fails because the formatter rejected the
\* template and value.
RenderingMismatchFallback ==
    /\ ret.exc \notin {"ValueError", "OverflowError"}
    /\ once.exc \notin {"ValueError", "OverflowError"}

\* C10: in CAP_VALUE the resolved width is 1, 2 or 4 and the argument buffer
\* holds fewer bytes than it.
CaptureBoundedByWidth ==
    state = CAP_VALUE => (val_len \in {1, 2, 4} /\ Len(data_buffer) < val_len)

(***************************************************************************)
(* parse_length_chars on its own.  The caller holds a template without its *)
(* conversion letter in fed, '%' followed by flag and digit characters and *)
(* a length modifier, and calls parse_length_chars(fed, letter) once.      *)
(***************************************************************************)
PrefixChars == {45, 48, 53, 46}

Prefixes == UNION {[1..n -> PrefixChars] : n \in 0..MaxPrefix}

\* the modifiers made of the characters of len_char_set
Modifiers ==
    {<<>>, <<Chr_h>>, <<Chr_h, Chr_h>>, <<Chr_l>>, <<Chr_l, Chr_l>>,
     <<76>>, <<106>>, <<122>>, <<116>>}

InitLen ==
    /\ errors \in Policies
    /\ print_fmt = InitFields.print_fmt
    /\ data_buffer = InitFields.data_buffer
    /\ val_len = InitFields.val_len
    /\ val_fmt = InitFields.val_fmt
    /\ state = InitFields.state
    /\ caller = [bytes |-> PrefixChars, limit |-> MaxPrefix]
    /\ used = 0
    /\ fed \in {<<PCT>> \o p \o m : p \in Prefixes, m \in Modifiers}
    /\ out = <<>>
    /\ failed = FALSE
    /\ trace = "new"
    /\ ret = [op |-> "init", exc |-> "none"]
    /\ once = NotRun

\* what parse_length_chars(fed, letter) returned, and the byte width
\* VALUE_FORMAT and struct.calcsize give its tag
Normalized(letter, p) ==
    [op |-> "parse_length_chars", exc |-> p.exc, letter |-> letter,
     fmt |-> p.fmt, tag |-> p.tag, width |-> calcsize(VALUE_FORMAT(p.tag))]

\* print_fmt, val_fmt = parse_length_chars(fed, letter)
ParseLengthChars ==
    /\ ret.op = "init"
    /\ \E letter \in IntLetters :
          ret' = Normalized(letter, parse_length_chars(fed, letter))
    /\ UNCHANGED <<errors, print_fmt, data_buffer, val_len, val_fmt, state,
                   caller, used, fed, out, failed, trace, once>>

NextLen == ParseLengthChars

SpecLen == InitLen /\ [][NextLen]_vars

\* the width tag the modifier m stands for
TagOf(m) ==
    IF m = <<Chr_h, Chr_h>> THEN <<Chr_h, Chr_h>>
    ELSE IF m = <<Chr_h>> THEN <<Chr_h>>
    ELSE <<>>

\* the byte width the modifier m stands for
WidthOf(m) ==
    IF m = <<Chr_h, Chr_h>> THEN 1 ELSE IF m = <<Chr_h>> THEN 2 ELSE 4

\* C11: for a template '%' prefix modifier and a letter of d, u, o, x, X,
\* parse_length_chars returns '%' prefix letter, and a tag of width 1 for
\* hh, 2 for h, and 4 for ll, l, L, j, z, t and for no modifier.
LengthModifierNormalization ==
    ret.op = "parse_length_chars" =>
        \A p \in Prefixes : \A m \in Modifiers :
            fed = <<PCT>> \o p \o m =>
                /\ ret.exc = "none"
                /\ ret.fmt = <<PCT>> \o p \o <<ret.letter>>
                /\ ret.tag = TagOf(m) \o <<ret.letter>>
                /\ ret.width = WidthOf(m)
                /\ ret.fmt[1] = PCT

WitnessLengthModifierNormalization ==
    /\ ret.op = "parse_length_chars" /\ ret.exc = "none"
    /\ fed = <<PCT, 48, 53, Chr_l, Chr_l>> /\ ret.fmt = <<PCT, 48, 53, 120>>

(***************************************************************************)
(* Records with wildcards: the caller of Spec with the escape marker, '*', *)
(* the special-char conversion 0xE4 and NUL to draw from.                  *)
(***************************************************************************)
WildAlphabet == {0, 42, 165, 228}

InitWild == InitWith(Policies, WildAlphabet, MaxWild)

SpecWild == InitWild /\ [][Next]_vars

\* b is an escape marker, spec characters that end no specifier, and at k
\* a '*' with its data byte
FirstWildAt(b, k) ==
    /\ b[1] = ESC /\ b[k] = STAR /\ k < Len(b)
    /\ \A j \in 2..(k - 1) : b[j] \notin SPECIFIER_CHARS \cup {STAR}

\* b with the '*' at k and its data byte replaced by the decimal digits
WithDigits(b, k) ==
    SubSeq(b, 1, k - 1) \o DecimalStr(b[k + 1]) \o SubSeq(b, k + 2, Len(b))

\* the closed stream gave what the decode call res gives
StreamGave(res) == res.exc = "none" /\ res.text = out

\* printf_decode gave res
OnceGave(res) == res.exc = once.exc /\ res.text = once.text

\* what fed renders to is what it renders to with its first wildcard
\* written as digits
RendersAsDigits ==
    \A k \in 2..Len(fed) : FirstWildAt(fed, k) =>
        /\ (trace = "new-final" /\ ~failed) =>
              StreamGave(decode(InitFields, WithDigits(fed, k), TRUE, errors))
        /\ (trace = "new-final" /\ once.done) =>
              OnceGave(printf_decode(WithDigits(fed, k), errors))

\* the streaming decoder at a '*' and at the data byte after it
SplicesDataByte ==
    /\ (IsByte /\ state = FIND_FMT_END /\ Last(fed') = STAR) =>
          /\ state' = CAP_WILD /\ print_fmt' = print_fmt
          /\ ret'.exc = "none" /\ CallText = <<>>
          /\ UNCHANGED <<data_buffer, val_len, val_fmt>>
    /\ (IsByte /\ state = CAP_WILD) =>
          /\ state' = FIND_FMT_END
          /\ print_fmt' = print_fmt \o DecimalStr(Last(fed'))
          /\ ret'.exc = "none" /\ CallText = <<>>
          /\ UNCHANGED <<data_buffer, val_len, val_fmt>>

\* C12: at a '*' the streaming decoder waits for one data byte, splices its
\* decimal text into the template whatever the byte is, and goes on
\* scanning; and in both decoders a record renders as it does with the
\* digits written in place of the '*' and its data byte.
WildcardSubstitution == []RendersAsDigits /\ [][SplicesDataByte]_vars

WitnessWildcardSubstitution ==
    /\ trace = "new-final" /\ ~failed /\ once.done /\ once.exc = "none"
    /\ fed = <<ESC, STAR, 165, 228, 42>>
    /\ out = <<Rendered(<<PCT, 49, 54, 53, 100>>, IntVal(FALSE, <<42>>))>>
    /\ once.text = out

\* no character of the str s is NUL
NoNul(s) == \A k \in 1..Len(s) : s[k] # NUL

\* no token of text was rendered with a template that holds a NUL, and no
\* token is a literal NUL
NulFree(text) ==
    \A k \in 1..Len(text) :
        IF text[k].kind = "fmt" THEN NoNul(text[k].fmt) ELSE text[k].dat # <<NUL>>

\* C13: the template of the streaming decoder never holds a NUL, no text
\* is rendered with a template that holds one, and the streaming decoder
\* never returns a NUL character.
NulNeverInTemplate ==
    /\ NoNul(print_fmt)
    /\ NulFree(out)
    /\ \A k \in 1..Len(once.text) :
          once.text[k].kind = "fmt" => NoNul(once.text[k].fmt)

\* b starts with the record of a plain 's' whose payload ends at the NUL
\* b[n]
StrRecordAt(b, n) ==
    /\ n >= 3 /\ n <= Len(b)
    /\ b[1] = ESC /\ b[2] = Chr_s /\ b[n] = NUL
    /\ \A j \in 3..(n - 1) : b[j] # NUL

\* the rendering of the payload of that record under the policy
StrText(b, n) ==
    <<Rendered(<<PCT, Chr_s>>, StrVal(AsciiChars(SubSeq(b, 3, n - 1), errors)))>>

\* the policy fails the call for that payload
Rejects(b, n) == errors = "strict" /\ ~IsAscii(SubSeq(b, 3, n - 1))

\* the closed stream gave the text t, then what the decode call res gives
StreamThenGave(t, res) == res.exc = "none" /\ out = t \o res.text

\* printf_decode gave the text t, then what the call res gives
OnceThenGave(t, res) == res.exc = "none" /\ once.text = t \o res.text

IdleMeansEmpty ==
    state = FIND_FMT_START => (print_fmt = <<>> /\ data_buffer = <<>>)

\* getstate() returned g: the template and buffer bytes and the phase
Exports(g) ==
    g.exc = "none" /\ g.bytes = print_fmt \o data_buffer /\ g.phase = state

\* C17: in every state getstate() returns the template followed by the
\* argument buffer, and the phase, and no getstate() call has raised.
StateExportSucceeds ==
    /\ Exports(getstate(Self))
    /\ ret.op = "getstate" => ret.exc = "none"

(***************************************************************************)
(* Templates with length modifiers and wildcards: the caller of Spec with  *)
(* the escape marker, 'h', 'd', '*' and 's' to draw from.                  *)
(***************************************************************************)
ShapeAlphabet == {42, 100, 104, 115, 165}

InitShape == InitWith(Policies, ShapeAlphabet, MaxWild)

SpecShape == InitShape /\ [][Next]_vars

\* C16: outside FIND_FMT_START the template is not empty and starts with
\* '%'.
TemplateShape ==
    state # FIND_FMT_START => (print_fmt # <<>> /\ print_fmt[1] = PCT)

WitnessTemplateShape ==
    /\ state = CAP_VALUE /\ val_len = 2
    /\ fed = <<ESC, STAR, Chr_h, Chr_h, 100>>
    /\ print_fmt = <<PCT, 49, 48, 52, 100>>

\* the characters of a text of literal tokens
TextChars(text) == [k \in 1..Len(text) |-> text[k].dat[1]]

\* a occurs in b, in order
RECURSIVE IsSubseq(_, _)
IsSubseq(a, b) ==
    IF a = <<>> THEN TRUE
    ELSE IF b = <<>> THEN FALSE
    ELSE IF a[1] = b[1] THEN IsSubseq(Tail(a), Tail(b))
    ELSE IsSubseq(a, Tail(b))

\* the record bytes b from i on as they are due in the flushed text: spec
\* bytes as they are, a '*' with its data byte as the decimal text, and
\* from the conversion byte on everything as it is
RECURSIVE RecordBytes(_, _)
RecordBytes(b, i) ==
    IF i > Len(b) THEN <<>>
    ELSE IF b[i] = STAR /\ i < Len(b)
      THEN DecimalStr(b[i + 1]) \o RecordBytes(b, i + 2)
    ELSE IF b[i] \in SPECIFIER_CHARS THEN SubSeq(b, i, Len(b))
    ELSE <<b[i]>> \o RecordBytes(b, i + 1)

\* fed is one escape marker and a record still open, without NUL and '%'
OpenRecord ==
    /\ trace = "new" /\ ~failed /\ state # FIND_FMT_START
    /\ fed # <<>> /\ fed[1] = ESC
    /\ \A k \in 2..Len(fed) : fed[k] \notin {ESC, NUL, PCT}

\* C18: when the stream is closed inside a record, the flushed text holds,
\* in input order, every byte of the record after the escape marker, a
\* wildcard's data byte as its decimal text.
NoBytesLost ==
    [][(IsFinalize /\ OpenRecord /\ ret'.exc = "none") =>
          IsSubseq(RecordBytes(fed, 2), TextChars(CallText))]_vars

====
